---- MODULE Spec2Model ----
(***************************************************************************)
(* go-restli: the type registry (Register, Finalize: validation, cycle     *)
(* detection and flagging, name-conflict remediation) and the generated    *)
(* wire codec of ExtensionSchemaAnnotation (record and partial update).    *)
(*                                                                         *)
(* Go strings are sequences of one-character strings, so that ToLower,     *)
(* slicing and concatenation are computed as the code computes them.       *)
(***************************************************************************)
EXTENDS Integers, Sequences, FiniteSets, TLC

VARIABLES
    types,          \* typeRegistry.types: Identifier -> registeredType
    packageRoots,   \* typeRegistry.packageRoots: package root -> IdentifierSet
    importNames,    \* package paths recorded by addImportName
    pc,             \* position of the generation run: idle, cycles, names, done, failed
    call,           \* the last call made on the registry
    err,            \* the error returned by the last call
    visited,        \* flagCyclicDependencies: ids whose outer-loop iteration is over
    curId,          \* flagCyclicDependencies: {id} of the iteration in progress, or {}
    cycle,          \* flagCyclicDependencies: the cycle returned by the last findCycle
    rootsDone,      \* remediateConflictingNames: package roots already processed
    searches,       \* flagCyclicDependencies: findCycle calls made for the id in progress
    codecOp,        \* position of the codec run: none, record, recordMarshalled, ...
    codecIn,        \* the record or the partial update handed to the marshaller
    codecWire,      \* what the writer holds after the marshal call
    codecOut,       \* the fresh instance after the unmarshal call
    marshalErr,     \* the error returned by the marshal call
    unmarshalErr    \* the error returned by the unmarshal call

registryVars ==
    <<types, packageRoots, importNames, pc, call, err, visited, curId, cycle, rootsDone, searches>>

codecVars == <<codecOp, codecIn, codecWire, codecOut, marshalErr, unmarshalErr>>

vars == <<registryVars, codecVars>>

----------------------------------------------------------------------------
(* Bounds *)

\* largest inner-type set of a descriptor of the graph universe
MaxInner == 2

\* largest inner-type set of a descriptor of the names universe
MaxInnerN == 1

\* the most findCycle calls flagCyclicDependencies is followed through for one id
MaxSearches == 6

----------------------------------------------------------------------------
(* Strings *)

ToLowerChar(c) ==
    CASE c = "A" -> "a" [] c = "B" -> "b" [] c = "C" -> "c" [] c = "P" -> "p"
      [] c = "Q" -> "q" [] c = "T" -> "t" [] c = "X" -> "x" [] c = "Y" -> "y"
      [] OTHER -> c

ToUpperChar(c) ==
    CASE c = "a" -> "A" [] c = "b" -> "B" [] c = "c" -> "C" [] c = "p" -> "P"
      [] c = "q" -> "Q" [] c = "t" -> "T" [] c = "x" -> "X" [] c = "y" -> "Y"
      [] OTHER -> c

\* strings.ToLower
ToLower(s) == [i \in 1..Len(s) |-> ToLowerChar(s[i])]

\* strings.ToUpper(identifier[:1]) + identifier[1:]
ExportedIdentifier(identifier) ==
    <<ToUpperChar(identifier[1])>> \o SubSeq(identifier, 2, Len(identifier))

\* strings.LastIndex(s, "."), as a Go (0-based) index, -1 when there is none
LastIndexDot(s) ==
    LET at == {i \in 1..Len(s) : s[i] = "."}
    IN  IF at = {} THEN -1 ELSE (CHOOSE i \in at : \A j \in at : j <= i) - 1

\* s[from:] for a Go (0-based) index
SliceFrom(s, from) == SubSeq(s, from + 1, Len(s))

----------------------------------------------------------------------------
(* Identifiers and type descriptors *)

Ident(ns, name) == [Name |-> name, Namespace |-> ns]

\* Identifier.FullName: Namespace + "." + Name
FullName(id) == id.Namespace \o <<".">> \o id.Name

\* Identifier.PackagePath: the module path derived from the namespace
PackagePath(id) == [i \in 1..Len(id.Namespace) |->
                        IF id.Namespace[i] = "." THEN "/" ELSE id.Namespace[i]]

\* The graph universe: two namespaces, three types whose names differ by case only
G1 == Ident(<<"p", ".", "a">>, <<"T">>)
G2 == Ident(<<"q", ".", "a">>, <<"T">>)
G3 == Ident(<<"q", ".", "a">>, <<"t">>)
GraphIds == {G1, G2, G3}

\* The names universe: four types in three namespaces
N1 == Ident(<<"x", ".", "a">>, <<"b", "C">>)
N2 == Ident(<<"y", ".", "q">>, <<"B", "c">>)
N3 == Ident(<<"x", ".", "a", "b">>, <<"C">>)
N4 == Ident(<<"y", ".", "q">>, <<"c">>)
NameIds == {N1, N2, N3, N4}

Roots == {"R1", "R2"}
RootsN == {"R1"}

\* A ComplexType as the registry sees it: GetIdentifier() and InnerTypes()
Descriptors(ids, maxInner) ==
    {[id |-> i, inner |-> s] : i \in ids,
        s \in {x \in SUBSET ids : Cardinality(x) <= maxInner}}

GraphTypes == Descriptors(GraphIds, MaxInner)
NameTypes == Descriptors(NameIds, MaxInnerN)

NoErr == [kind |-> "none"]
NoCall == [op |-> "none"]

----------------------------------------------------------------------------
(* Register *)

\* the registry as constructed: TypeRegistry with its two empty maps
InitRegistry ==
    /\ types = <<>>
    /\ packageRoots = <<>>
    /\ importNames = {}
    /\ pc = "idle"
    /\ call = NoCall
    /\ err = NoErr
    /\ visited = {}
    /\ curId = {}
    /\ cycle = <<>>
    /\ rootsDone = {}
    /\ searches = 0

\* no codec call in progress
InitNoCodec ==
    /\ codecOp = "none"
    /\ codecIn = <<>>
    /\ codecWire = <<>>
    /\ codecOut = <<>>
    /\ marshalErr = NoErr
    /\ unmarshalErr = NoErr

Init == InitRegistry /\ InitNoCodec

\* Fault: a new entry starts out flagged cyclic
NewRegisteredTypeCyclic(t, packageRoot) ==
    [Type |-> t, PackageRoot |-> packageRoot, IsCyclic |-> TRUE,
     TypeNameOverride |-> <<>>, IsCustomTyperef |-> FALSE]

NewRegisteredType(t, packageRoot) ==
    [Type |-> t, PackageRoot |-> packageRoot, IsCyclic |-> FALSE,
     TypeNameOverride |-> <<>>, IsCustomTyperef |-> FALSE]

\* Fault: Register stores the new descriptor before it looks the identifier up
RegisterResultOverwriting(ty, pr, t, packageRoot) ==
    IF t.id \notin DOMAIN ty
    THEN [types |-> ty @@ (t.id :> NewRegisteredType(t, packageRoot)),
          packageRoots |->
              IF packageRoot \in DOMAIN pr
              THEN [pr EXCEPT ![packageRoot] = @ \cup {t.id}]
              ELSE pr @@ (packageRoot :> {t.id}),
          err |-> NoErr]
    ELSE [types |-> [ty EXCEPT ![t.id] = NewRegisteredType(t, packageRoot)],
          packageRoots |-> pr,
          err |-> [kind |-> "alreadyRegistered", id |-> t.id,
                   root |-> ty[t.id].PackageRoot]]

\* the registry after Register(t, packageRoot): [types, packageRoots, err]
RegisterResult(ty, pr, t, packageRoot) ==
    IF t.id \notin DOMAIN ty
    THEN [types |-> ty @@ (t.id :> NewRegisteredType(t, packageRoot)),
          packageRoots |->
              IF packageRoot \in DOMAIN pr
              THEN [pr EXCEPT ![packageRoot] = @ \cup {t.id}]
              ELSE pr @@ (packageRoot :> {t.id}),
          err |-> NoErr]
    ELSE [types |-> ty, packageRoots |-> pr,
          err |-> [kind |-> "alreadyRegistered", id |-> t.id,
                   root |-> ty[t.id].PackageRoot]]

Register(t, packageRoot) ==
    /\ pc = "idle"
    /\ LET r == RegisterResult(types, packageRoots, t, packageRoot)
       IN  /\ types' = r.types
           /\ packageRoots' = r.packageRoots
           /\ err' = r.err
           /\ importNames' = IF r.err = NoErr
                             THEN importNames \cup {PackagePath(t.id)}
                             ELSE importNames
    /\ call' = [op |-> "Register", id |-> t.id, root |-> packageRoot]
    /\ UNCHANGED <<pc, visited, curId, cycle, rootsDone, searches, codecVars>>

----------------------------------------------------------------------------
(* Finalize: the order of the stages *)

\* Fault: Finalize drops the error of a stage and goes on to the next one
FinalizeNextIgnoringError(stage, e) ==
    CASE stage = "validate" -> "cycles"
      [] stage = "cycles" -> "names"
      [] stage = "names" -> "done"

\* Finalize: where the run goes after `stage` returned e
FinalizeNext(stage, e) ==
    IF e # NoErr THEN "failed"
    ELSE CASE stage = "validate" -> "cycles"
           [] stage = "cycles" -> "names"
           [] stage = "names" -> "done"

----------------------------------------------------------------------------
(* Stage 1: validateAllTypesSatisfied *)

\* Fault: validateAllTypesSatisfied looks up id where it should look up dep
ValidateLooksUpDependent(ty) ==
    LET unknown == {p \in (DOMAIN ty) \X (UNION {ty[i].Type.inner : i \in DOMAIN ty}) :
                        p[2] \in ty[p[1]].Type.inner /\ p[1] \notin DOMAIN ty}
    IN  IF unknown = {} THEN {NoErr}
        ELSE {[kind |-> "unknownType", dependent |-> FullName(p[1]),
               missing |-> FullName(p[2])] : p \in unknown}

\* the errors validateAllTypesSatisfied can return, one per (id, dep) pair the
\* map iteration can meet first; {NoErr} when every dependency is registered
ValidateAllTypesSatisfied(ty) ==
    LET unknown == {p \in (DOMAIN ty) \X (UNION {ty[i].Type.inner : i \in DOMAIN ty}) :
                        p[2] \in ty[p[1]].Type.inner /\ p[2] \notin DOMAIN ty}
    IN  IF unknown = {} THEN {NoErr}
        ELSE {[kind |-> "unknownType", dependent |-> FullName(p[1]),
               missing |-> FullName(p[2])] : p \in unknown}

FinalizeValidate ==
    /\ pc = "idle"
    /\ \E e \in ValidateAllTypesSatisfied(types) :
          /\ err' = e
          /\ pc' = FinalizeNext("validate", e)
    /\ call' = [op |-> "Finalize"]
    /\ UNCHANGED <<types, packageRoots, importNames, visited, curId, cycle, rootsDone, searches, codecVars>>

----------------------------------------------------------------------------
(* Stage 2: flagCyclicDependencies *)

\* Path.SeenNode
SeenNode(p, id) == \E i \in 1..Len(p) : p[i] = id

\* Path.IntroducesCycle, the loop from index i (1-based) down to the first node
RECURSIVE IntroducesCycleLoop(_, _, _, _)
IntroducesCycleLoop(p, nextNode, i, inSameNamespace) ==
    IF i < 1 THEN <<>>
    ELSE IF PackagePath(p[i]) # PackagePath(nextNode)
         THEN IntroducesCycleLoop(p, nextNode, i - 1, FALSE)
         ELSE IF ~inSameNamespace
              THEN SubSeq(p, i, Len(p)) \o <<nextNode>>
              ELSE IntroducesCycleLoop(p, nextNode, i - 1, inSameNamespace)

\* Fault: the scan starts at len(p) - 2 and misses the last node of the path
IntroducesCycleShortScan(p, nextNode) == IntroducesCycleLoop(p, nextNode, Len(p) - 1, TRUE)

\* Fault: inSameNamespace starts out false, so that a node of the package of
\* the node before it closes a cycle
IntroducesCycleWithinNamespace(p, nextNode) == IntroducesCycleLoop(p, nextNode, Len(p), FALSE)

IntroducesCycle(p, nextNode) == IntroducesCycleLoop(p, nextNode, Len(p), TRUE)

\* findCycle: the cycles it can return, one per order in which the inner types
\* can be iterated; {} when it returns nil (in every order)
RECURSIVE FindCycle(_, _, _)
FindCycle(ty, nextNode, path) ==
    IF Len(IntroducesCycle(path, nextNode)) > 0 THEN {IntroducesCycle(path, nextNode)}
    ELSE IF SeenNode(path, nextNode) THEN {}
    ELSE UNION {FindCycle(ty, c, Append(path, nextNode)) :
                    c \in {x \in ty[nextNode].Type.inner : ~ty[x].IsCyclic}}

\* flagCyclic(id), and its loop over the inner types still to visit
RECURSIVE FlagCyclic(_, _)
RECURSIVE FlagChildren(_, _, _)
\* Fault: flagCyclic descends into the inner types of every package root
RECURSIVE FlagChildrenAnyRoot(_, _, _)
FlagChildrenAnyRoot(ty, id, todo) ==
    IF todo = {} THEN ty
    ELSE LET c == CHOOSE x \in todo : TRUE
         IN  FlagChildrenAnyRoot(IF ~ty[c].IsCyclic THEN FlagCyclic(ty, c) ELSE ty,
                                 id, todo \ {c})

FlagChildren(ty, id, todo) ==
    IF todo = {} THEN ty
    ELSE LET c == CHOOSE x \in todo : TRUE
         IN  FlagChildren(
                 IF ~ty[c].IsCyclic /\ ty[id].PackageRoot = ty[c].PackageRoot
                 THEN FlagCyclic(ty, c) ELSE ty,
                 id, todo \ {c})

FlagCyclic(ty, id) ==
    FlagChildren([ty EXCEPT ![id].IsCyclic = TRUE], id, ty[id].Type.inner)

\* Fault: the types of the cycle found are not flagged
FlagAllNothing(ty, cyc) == ty

\* for _, c := range cycle { reg.flagCyclic(c) }
RECURSIVE FlagAll(_, _)
FlagAll(ty, cyc) ==
    IF cyc = <<>> THEN ty ELSE FlagAll(FlagCyclic(ty, Head(cyc)), Tail(cyc))

\* Identifier.PackageRoot: the package root the identifier was registered in
IdPackageRoot(ty, id) == ty[id].PackageRoot

\* the package roots of a cycle (the keys of the packageRoots map)
CyclePackageRoots(ty, cyc) == {IdPackageRoot(ty, cyc[i]) : i \in 1..Len(cyc)}

\* strings.Join(identifiers, " -> "), kept as the sequence of the full names
CyclePath(cyc) == [i \in 1..Len(cyc) |-> FullName(cyc[i])]

\* one iteration of the inner for-loop for `id`: [types, err, found, cycle]
CycleIteration(ty, id) ==
    LET found == FindCycle(ty, id, <<>>)
    IN  IF found = {}
        THEN {[types |-> ty, err |-> NoErr, found |-> FALSE, cycle |-> <<>>]}
        ELSE {IF Cardinality(CyclePackageRoots(ty, cyc)) > 1
              THEN [types |-> ty, found |-> TRUE, cycle |-> cyc,
                    err |-> [kind |-> "crossPackageCycle", path |-> CyclePath(cyc)]]
              ELSE [types |-> FlagAll(ty, cyc), found |-> TRUE, cycle |-> cyc,
                    err |-> NoErr] : cyc \in found}

\* the outer loop picks the next id, or goes on with the one in progress
FlagCyclicDependenciesStep ==
    /\ pc = "cycles"
    /\ \E id \in (IF curId # {} THEN curId ELSE DOMAIN types \ visited) :
       \E r \in CycleIteration(types, id) :
          /\ types' = r.types
          /\ cycle' = r.cycle
          /\ err' = r.err
          /\ pc' = IF r.err # NoErr THEN FinalizeNext("cycles", r.err) ELSE pc
          /\ curId' = IF r.found /\ r.err = NoErr THEN {id} ELSE {}
          /\ visited' = IF r.found THEN visited ELSE visited \cup {id}
    /\ searches < MaxSearches
    /\ searches' = IF curId = {} THEN 1 ELSE searches + 1
    /\ UNCHANGED <<packageRoots, importNames, call, rootsDone, codecVars>>

FlagCyclicDependenciesReturn ==
    /\ pc = "cycles"
    /\ curId = {}
    /\ visited = DOMAIN types
    /\ pc' = FinalizeNext("cycles", NoErr)
    /\ searches' = 0
    /\ UNCHANGED <<types, packageRoots, importNames, call, err, visited, curId, cycle, rootsDone, codecVars>>

----------------------------------------------------------------------------
(* Stage 3: remediateConflictingNames *)

\* ExportedIdentifier(id.Namespace[strings.LastIndex(id.Namespace, ".")+1:] + id.Name)
Override(id) ==
    ExportedIdentifier(SliceFrom(id.Namespace, LastIndexDot(id.Namespace) + 1) \o id.Name)

\* Fault: conflictingTypes groups every type of the package root, cyclic or not
ConflictingTypesOfAnyType(ty, ids) ==
    [name \in {ToLower(id.Name) : id \in ids} |-> {id \in ids : ToLower(id.Name) = name}]

\* conflictingTypes of one package root: case-folded name -> the cyclic ids bearing it
ConflictingTypes(ty, ids) ==
    [name \in {ToLower(id.Name) : id \in {x \in ids : ty[x].IsCyclic}} |->
        {id \in ids : ty[id].IsCyclic /\ ToLower(id.Name) = name}]

\* the orders in which a range loop can iterate the set S
Orders(S) ==
    {o \in [1..Cardinality(S) -> S] : \A i, j \in 1..Cardinality(S) : o[i] = o[j] => i = j}

\* the loop over one group of conflicting ids, iterated in `order`, from position k
RECURSIVE RenameGroup(_, _, _, _)
RenameGroup(ty, order, k, overrides) ==
    IF k > Len(order) THEN [types |-> ty, err |-> NoErr]
    ELSE LET id == order[k]
             override == Override(id)
             renamed == [ty EXCEPT ![id].TypeNameOverride = override]
         IN  IF override \in DOMAIN overrides
             THEN [types |-> renamed,
                   err |-> [kind |-> "nameCollision", id |-> FullName(id),
                            target |-> id.Namespace \o <<".">> \o override,
                            conflict |-> FullName(overrides[override])]]
             ELSE RenameGroup(renamed, order, k + 1, overrides @@ (override :> id))

\* the loop over the groups of one package root, those in namesLeft still to visit
RECURSIVE RenameGroups(_, _, _)
RenameGroups(ty, conflictingTypes, namesLeft) ==
    IF namesLeft = {} THEN {[types |-> ty, err |-> NoErr]}
    ELSE UNION {
            IF Cardinality(conflictingTypes[name]) = 1
            THEN RenameGroups(ty, conflictingTypes, namesLeft \ {name})
            ELSE UNION {
                    LET r == RenameGroup(ty, order, 1, <<>>)
                    IN  IF r.err # NoErr THEN {r}
                        ELSE RenameGroups(r.types, conflictingTypes, namesLeft \ {name})
                    : order \in Orders(conflictingTypes[name])}
            : name \in namesLeft}

\* the body of the loop over reg.packageRoots for the ids of one package root
RemediateRoot(ty, ids) ==
    RenameGroups(ty, ConflictingTypes(ty, ids), DOMAIN ConflictingTypes(ty, ids))

RemediateConflictingNamesStep ==
    /\ pc = "names"
    /\ \E root \in DOMAIN packageRoots \ rootsDone :
       \E r \in RemediateRoot(types, packageRoots[root]) :
          /\ types' = r.types
          /\ err' = r.err
          /\ pc' = IF r.err # NoErr THEN FinalizeNext("names", r.err) ELSE pc
          /\ rootsDone' = IF r.err = NoErr THEN rootsDone \cup {root} ELSE rootsDone
    /\ UNCHANGED <<packageRoots, importNames, call, visited, curId, cycle, searches, codecVars>>

RemediateConflictingNamesReturn ==
    /\ pc = "names"
    /\ rootsDone = DOMAIN packageRoots
    /\ pc' = FinalizeNext("names", NoErr)
    /\ UNCHANGED <<types, packageRoots, importNames, call, err, visited, curId, cycle, rootsDone, searches, codecVars>>

----------------------------------------------------------------------------
(* The generation run over the graph universe and over the names universe *)

Finalize ==
    \/ FinalizeValidate
    \/ FlagCyclicDependenciesStep
    \/ FlagCyclicDependenciesReturn
    \/ RemediateConflictingNamesStep
    \/ RemediateConflictingNamesReturn

RegisterGraph == \E t \in GraphTypes, r \in Roots : Register(t, r)

RegisterNames == \E t \in NameTypes, r \in RootsN : Register(t, r)

Next == RegisterGraph \/ Finalize

NextNames == RegisterNames \/ Finalize

Spec == Init /\ [][Next]_vars

SpecNames == Init /\ [][NextNames]_vars

-----------------------------------------------------------------------------
(* The accessors.  They are called between the calls of Register and after *)
(* Finalize has returned nil; call holds the last call and what it         *)
(* returned.  log.Panicf ends the run: pc = "panicked" is final, and err   *)
(* holds the panic's message.                                              *)

AccessIds == {N1, N2, N3}
AccessTypes == Descriptors(AccessIds, MaxInnerN)

\* Fault: get returns a zero entry for an identifier that is not a key
getOrZero(ty, id) ==
    IF id \in DOMAIN ty THEN [panic |-> FALSE, t |-> ty[id]]
    ELSE [panic |-> FALSE,
          t |-> [Type |-> <<>>, PackageRoot |-> <<>>, IsCyclic |-> FALSE,
                 TypeNameOverride |-> <<>>, IsCustomTyperef |-> FALSE]]

\* get: the entry of id, or the panic "Unknown type"
get(ty, id) ==
    IF id \in DOMAIN ty THEN [panic |-> FALSE, t |-> ty[id]]
    ELSE [panic |-> TRUE, message |-> FullName(id)]

\* what a read accessor built on get leaves behind: the value returned, or
\* the panic
ReadThroughGet(op, id, field) ==
    /\ pc \in {"idle", "done"}
    /\ LET g == get(types, id)
       IN IF g.panic
          THEN /\ pc' = "panicked"
               /\ err' = [kind |-> "panic", message |-> g.message]
               /\ call' = [op |-> op, id |-> id]
          ELSE /\ call' = [op |-> op, id |-> id, result |-> g.t[field]]
               /\ UNCHANGED <<pc, err>>
    /\ UNCHANGED <<types, packageRoots, importNames, visited, curId, cycle, rootsDone,
                   searches, codecVars>>

Resolve(id) == ReadThroughGet("Resolve", id, "Type")

PackageRoot(id) == ReadThroughGet("PackageRoot", id, "PackageRoot")

IsCyclic(id) == ReadThroughGet("IsCyclic", id, "IsCyclic")

IsCustomTyperef(id) == ReadThroughGet("IsCustomTyperef", id, "IsCustomTyperef")

\* TypeNameOverride: the override of a registered type, "" for any other id
TypeNameOverride(id) ==
    /\ pc \in {"idle", "done"}
    /\ call' = [op |-> "TypeNameOverride", id |-> id,
                result |-> IF id \in DOMAIN types THEN types[id].TypeNameOverride ELSE <<>>]
    /\ UNCHANGED <<types, packageRoots, importNames, pc, err, visited, curId, cycle,
                   rootsDone, searches, codecVars>>

\* SetCustomTyperef: reg.get(id).IsCustomTyperef = true
SetCustomTyperef(id) ==
    /\ pc \in {"idle", "done"}
    /\ LET g == get(types, id)
       IN IF g.panic
          THEN /\ pc' = "panicked"
               /\ err' = [kind |-> "panic", message |-> g.message]
               /\ UNCHANGED types
          ELSE /\ types' = [types EXCEPT ![id] = [g.t EXCEPT !.IsCustomTyperef = TRUE]]
               /\ UNCHANGED <<pc, err>>
    /\ call' = [op |-> "SetCustomTyperef", id |-> id]
    /\ UNCHANGED <<packageRoots, importNames, visited, curId, cycle, rootsDone, searches, codecVars>>

Accessors ==
    \E id \in AccessIds :
        \/ Resolve(id)
        \/ PackageRoot(id)
        \/ IsCyclic(id)
        \/ IsCustomTyperef(id)
        \/ TypeNameOverride(id)
        \/ SetCustomTyperef(id)

RegisterAccess == \E t \in AccessTypes, r \in RootsN : Register(t, r)

NextAccess == RegisterAccess \/ Finalize \/ Accessors

SpecAccess == Init /\ [][NextAccess]_vars

-----------------------------------------------------------------------------
(* Finalize followed to its return: once called it runs to completion, no  *)
(* other call comes in between, so its steps are taken as long as one is   *)
(* possible.  One of the types has up to MaxInner inner types, so that one *)
(* start type can lead to several cycles; the others have up to MaxInnerN  *)
(* inner types, other than themselves, among the first three.              *)

LoopTypes ==
    {[id |-> N1, inner |-> s] : s \in {x \in SUBSET NameIds : Cardinality(x) <= MaxInner}}
    \cup {d \in Descriptors(NameIds, MaxInnerN) :
            d.id # N1 /\ d.inner \subseteq {N1, N2, N3} \ {d.id}}

RegisterLoop == \E t \in LoopTypes, r \in RootsN : Register(t, r)

FinalizeSteps ==
    \/ FlagCyclicDependenciesStep
    \/ FlagCyclicDependenciesReturn
    \/ RemediateConflictingNamesStep
    \/ RemediateConflictingNamesReturn

NextLoop == RegisterLoop \/ Finalize

SpecLoop == Init /\ [][NextLoop]_vars /\ WF_vars(FinalizeSteps)

----------------------------------------------------------------------------
(* The inner-type graph of the registered types, as the claims speak of it *)

Registered == DOMAIN types

\* a reference a -> b between two registered types
Refers(a, b) == a \in Registered /\ b \in Registered /\ b \in types[a].Type.inner

\* the (id, dep) pairs with dep a reference to a type that is not registered
UnknownRefs == {p \in Registered \X (UNION {types[i].Type.inner : i \in Registered}) :
                    p[2] \in types[p[1]].Type.inner /\ p[2] \notin Registered}

\* the chains c[1] -> c[2] -> ... -> c[k] of references, of at most maxLen types
Chains(maxLen) ==
    {c \in UNION {[1..k -> Registered] : k \in 1..maxLen} :
        \A i \in 1..(Len(c) - 1) : Refers(c[i], c[i + 1])}

\* the reference cycles: chains of distinct types whose last type refers to the first
RefCycles ==
    {c \in Chains(Cardinality(Registered)) :
        /\ \A i, j \in 1..Len(c) : c[i] = c[j] => i = j
        /\ Refers(c[Len(c)], c[1])}

RootsOf(c) == {types[c[i]].PackageRoot : i \in 1..Len(c)}
PackagesOf(c) == {PackagePath(c[i]) : i \in 1..Len(c)}
OnChain(c) == {c[i] : i \in 1..Len(c)}

CyclicTypes == {id \in Registered : types[id].IsCyclic}
RenamedTypes == {id \in Registered : types[id].TypeNameOverride # <<>>}

FinalizeReturned == pc \in {"done", "failed"}

----------------------------------------------------------------------------
(* C1 *)

\* C1: when every reference resolves and some reference cycle has types of two
\* package roots (and of two packages, as pkg1.A -> pkg2.B -> pkg1.A), Finalize
\* returns the cross-package cycle error, whose path names a chain of references.
C1_CrossRootCycleAlwaysFails ==
    (/\ FinalizeReturned
     /\ UnknownRefs = {}
     /\ \E c \in RefCycles : Cardinality(RootsOf(c)) > 1 /\ Cardinality(PackagesOf(c)) > 1)
    => /\ pc = "failed"
       /\ err.kind = "crossPackageCycle"
       /\ err.path \in {CyclePath(c) : c \in Chains(Cardinality(Registered) + 1)}

----------------------------------------------------------------------------
(* C2 *)

\* the reference cycles of two or more types, all of one package root
SingleRootCycles == {c \in RefCycles : Len(c) >= 2 /\ Cardinality(RootsOf(c)) = 1}

----------------------------------------------------------------------------
(* C3 *)

\* the types reached from the types of `from` by references between types of one
\* package root
RECURSIVE SameRootClosure(_)
SameRootClosure(from) ==
    LET more == {b \in Registered : \E a \in from :
                    Refers(a, b) /\ types[a].PackageRoot = types[b].PackageRoot}
    IN  IF more \subseteq from THEN from ELSE SameRootClosure(from \cup more)

\* every inner type of a cyclic type that shares its package root is cyclic
FloodFilled ==
    \A a \in CyclicTypes : \A b \in Registered :
        (Refers(a, b) /\ types[a].PackageRoot = types[b].PackageRoot) => b \in CyclicTypes

\* a step flags only types of the cycle just found and what references between
\* types of that cycle's package root reach from it
FlagsWithinRoot ==
    \A id \in Registered :
        (id \in DOMAIN types' /\ types'[id].IsCyclic /\ ~types[id].IsCyclic)
        => /\ id \in SameRootClosure(OnChain(cycle'))
           /\ {types[id].PackageRoot} = RootsOf(cycle')

\* C3: the cyclic flag is flood-filled within a package root and never crosses
\* into another one.
C3_FloodFillWithinRoot == [](FloodFilled) /\ [][FlagsWithinRoot]_vars

\* the cycle stage is over, a flagged type refers to a flagged type of its own
\* package root and to a type of another package root, which stays unflagged
C3_Witness ==
    /\ pc \in {"names", "done"}
    /\ \E a \in CyclicTypes :
          /\ \E b \in CyclicTypes \ {a} :
                Refers(a, b) /\ types[a].PackageRoot = types[b].PackageRoot
          /\ \E b \in Registered \ CyclicTypes :
                Refers(a, b) /\ types[a].PackageRoot # types[b].PackageRoot

----------------------------------------------------------------------------
(* C4 *)

\* C4: a Register of an Identifier that is already a key returns the
\* already-registered error, which names the identifier and the package root of
\* the first registration, and leaves types and packageRoots as they were.
C4_DuplicateRegisterFails ==
    [][(call'.op = "Register" /\ call'.id \in DOMAIN types)
        => /\ err' = [kind |-> "alreadyRegistered", id |-> call'.id,
                      root |-> types[call'.id].PackageRoot]
           /\ types' = types
           /\ packageRoots' = packageRoots]_vars

\* a second registration of an identifier, naming another package root, failed
C4_Witness ==
    /\ call.op = "Register"
    /\ err.kind = "alreadyRegistered"
    /\ call.id \in Registered
    /\ call.root # types[call.id].PackageRoot
    /\ call.root \notin DOMAIN packageRoots

----------------------------------------------------------------------------
(* C5 *)

\* C5: Finalize returns the unknown-type error exactly when some registered type
\* has an inner type that is not registered, the error names such a pair, and
\* after a successful Finalize every inner type of a registered type is registered.
C5_UnknownTypeIffUnresolved ==
    pc # "idle" =>
        /\ (UnknownRefs # {}) <=> (pc = "failed" /\ err.kind = "unknownType")
        /\ err.kind = "unknownType" =>
              \E p \in UnknownRefs :
                  err.dependent = FullName(p[1]) /\ err.missing = FullName(p[2])
        /\ pc = "done" => \A a \in Registered : types[a].Type.inner \subseteq Registered

\* Finalize failed on a registry with two or more unresolved references
C5_Witness ==
    /\ pc = "failed"
    /\ err.kind = "unknownType"
    /\ Cardinality(UnknownRefs) > 1
    /\ Cardinality(Registered) > 1

----------------------------------------------------------------------------
(* C6 *)

\* the stages follow one another in the one order, a failure ends the run with
\* the error of the stage that failed, and each stage alone writes its field
StageOrder ==
    /\ pc' # pc =>
          \/ pc = "idle" /\ pc' = "cycles" /\ err' = NoErr
          \/ pc = "idle" /\ pc' = "failed" /\ err'.kind = "unknownType"
          \/ pc = "cycles" /\ pc' = "names" /\ err' = NoErr
          \/ pc = "cycles" /\ pc' = "failed" /\ err'.kind = "crossPackageCycle"
          \/ pc = "names" /\ pc' = "done" /\ err' = NoErr
          \/ pc = "names" /\ pc' = "failed" /\ err'.kind = "nameCollision"
    /\ pc # "idle" => DOMAIN types' = DOMAIN types
    /\ pc # "cycles" =>
          \A id \in DOMAIN types \cap DOMAIN types' : types'[id].IsCyclic = types[id].IsCyclic
    /\ pc # "names" =>
          \A id \in DOMAIN types \cap DOMAIN types' :
              types'[id].TypeNameOverride = types[id].TypeNameOverride

\* what a failed stage leaves behind
FailureLeaves ==
    /\ pc \in {"idle", "cycles"} => RenamedTypes = {}
    /\ pc = "idle" => CyclicTypes = {}
    /\ (pc = "failed" /\ err.kind = "unknownType") => CyclicTypes = {} /\ RenamedTypes = {}
    /\ (pc = "failed" /\ err.kind = "crossPackageCycle") => RenamedTypes = {}

\* C6: Finalize runs validation, then cycle flagging, then name remediation; a
\* failed stage ends Finalize with its error and no later stage runs.
C6_StagesInOrder == [](FailureLeaves) /\ [][StageOrder]_vars

\* the cycle stage failed on a registry of three types, two of which share a
\* package root and a case-folded name
C6_Witness ==
    /\ pc = "failed"
    /\ err.kind = "crossPackageCycle"
    /\ Cardinality(Registered) = 3
    /\ \E a, b \in Registered :
          a # b /\ types[a].PackageRoot = types[b].PackageRoot /\ ToLower(a.Name) = ToLower(b.Name)

----------------------------------------------------------------------------
(* C7 *)

\* C7: after a successful Finalize the cyclic types of a package root that share
\* a case-folded name are all renamed, and no two identifiers of a package root
\* bear the same override.
C7_OverridesDistinctInRoot ==
    pc = "done" =>
        \A root \in DOMAIN packageRoots : \A a, b \in packageRoots[root] :
            /\ (a # b /\ {a, b} \subseteq CyclicTypes /\ ToLower(a.Name) = ToLower(b.Name))
                  => {a, b} \subseteq RenamedTypes
            /\ (a # b /\ {a, b} \subseteq RenamedTypes)
                  => types[a].TypeNameOverride # types[b].TypeNameOverride

----------------------------------------------------------------------------
(* C8 *)

\* the cyclic types of id's package root that share id's case-folded name
CyclicNamesakes(id) ==
    {x \in CyclicTypes : types[x].PackageRoot = types[id].PackageRoot
                            /\ ToLower(x.Name) = ToLower(id.Name)}

\* C8: a type that is not cyclic is never renamed, and neither is a cyclic type
\* whose case-folded name no other cyclic type of its package root bears.
C8_OnlyConflictingCyclicTypesRenamed ==
    \A id \in Registered :
        /\ ~types[id].IsCyclic => types[id].TypeNameOverride = <<>>
        /\ CyclicNamesakes(id) = {id} => types[id].TypeNameOverride = <<>>

\* Finalize succeeded and renamed two cyclic types, while a type that is not
\* cyclic bears the case-folded name of a cyclic type of its package root, and a
\* cyclic type is the only one of its name
C8_Witness ==
    /\ pc = "done"
    /\ \E id \in Registered \ CyclicTypes : CyclicNamesakes(id) # {}
    /\ \E id \in CyclicTypes : CyclicNamesakes(id) = {id}

-----------------------------------------------------------------------------
(* The wire codec of ExtensionSchemaAnnotation.                            *)
(* An optional field (a Go pointer) is a sequence: <<>> is nil, <<v>> is   *)
(* a pointer to v.  A map[string]string is a function on its keys.         *)
(* What a Writer holds, and a Reader reads, is a value WString, WMap (the  *)
(* keyed entries in wire order) or WArray (the items in wire order).       *)

\* the most entries a params map of an input holds
MaxParams == 2

ParamKeys == {"k1", "k2", "k3"}
ParamValues == {"v", "w"}
StringValues == {"", "s"}

RecordType == "com.linkedin.restli.common.ExtensionSchemaAnnotation"

WString(s) == [t |-> "string", v |-> s]
WMap(entries) == [t |-> "map", v |-> entries]
WArray(items) == [t |-> "array", v |-> items]
Entry(key, val) == [key |-> key, val |-> val]

DeserializationError == [kind |-> "deserialization"]

ParamMaps ==
    UNION {[ks -> ParamValues] : ks \in {k \in SUBSET ParamKeys : Cardinality(k) <= MaxParams}}

OptionalStrings == {<<>>} \cup {<<s>> : s \in StringValues}
OptionalParams == {<<>>} \cup {<<m>> : m \in ParamMaps}

\* the values of struct ExtensionSchemaAnnotation (and of the Set_Fields struct)
Records == [Using : OptionalStrings, Params : OptionalParams, VersionSuffix : OptionalStrings]

DeleteFields == [Using : BOOLEAN, Params : BOOLEAN, VersionSuffix : BOOLEAN]

\* the values of struct ExtensionSchemaAnnotation_PartialUpdate
Patches == [Delete_Fields : DeleteFields, Set_Fields : Records]

\* new(ExtensionSchemaAnnotation)
NewInstance == [Using |-> <<>>, Params |-> <<>>, VersionSuffix |-> <<>>]

\* new(ExtensionSchemaAnnotation_PartialUpdate)
NewPatchInstance ==
    [Delete_Fields |-> [Using |-> FALSE, Params |-> FALSE, VersionSuffix |-> FALSE],
     Set_Fields |-> NewInstance]

\* equals.ComparablePointer: both nil, or both set and pointing to equal values
ComparablePointer(a, b) ==
    \/ Len(a) = 0 /\ Len(b) = 0
    \/ Len(a) = 1 /\ Len(b) = 1 /\ a[1] = b[1]

\* equals.ComparableMapPointer: both nil, or both set to maps with equal entries
ComparableMapPointer(a, b) ==
    \/ Len(a) = 0 /\ Len(b) = 0
    \/ /\ Len(a) = 1 /\ Len(b) = 1
       /\ DOMAIN a[1] = DOMAIN b[1]
       /\ \A k \in DOMAIN a[1] : a[1][k] = b[1][k]

\* Equals of two non-nil records
Equals(e, other) ==
    /\ ComparablePointer(e.Using, other.Using)
    /\ ComparableMapPointer(e.Params, other.Params)
    /\ ComparablePointer(e.VersionSuffix, other.VersionSuffix)

\* restlicodec.WriteMap of a map[string]string: one entry per key, the keys in
\* the order the map is ranged over
WriteMap(m) ==
    {WMap([i \in 1..Len(o) |-> Entry(o[i], WString(m[o[i]]))]) : o \in Orders(DOMAIN m)}

\* fault variant of MarshalFields: a nil string field is written as the empty string
MarshalFieldsWritingAbsent(e) ==
    {(IF Len(e.Params) = 1 THEN <<Entry("params", w)>> ELSE <<>>)
        \o <<Entry("using", WString(IF Len(e.Using) = 1 THEN e.Using[1] ELSE ""))>>
        \o <<Entry("versionSuffix",
                   WString(IF Len(e.VersionSuffix) = 1 THEN e.VersionSuffix[1] ELSE ""))>>
     : w \in IF Len(e.Params) = 1 THEN WriteMap(e.Params[1]) ELSE {WMap(<<>>)}}

\* MarshalFields: the entries written through keyWriter, params first
MarshalFields(e) ==
    {(IF Len(e.Params) = 1 THEN <<Entry("params", w)>> ELSE <<>>)
        \o (IF Len(e.Using) = 1 THEN <<Entry("using", WString(e.Using[1]))>> ELSE <<>>)
        \o (IF Len(e.VersionSuffix) = 1
            THEN <<Entry("versionSuffix", WString(e.VersionSuffix[1]))>> ELSE <<>>)
     : w \in IF Len(e.Params) = 1 THEN WriteMap(e.Params[1]) ELSE {WMap(<<>>)}}

\* MarshalRestLi: writer.WriteMap(e.MarshalFields)
MarshalRestLi(e) == {WMap(f) : f \in MarshalFields(e)}

\* Reader.ReadString: the string read, or an error and the zero value
ReadString(val) ==
    IF val.t = "string" THEN [v |-> val.v, err |-> NoErr]
    ELSE [v |-> "", err |-> DeserializationError]

\* restlicodec.ReadMap with Reader.ReadString: the map of the entries read; a
\* later entry of a key replaces an earlier one
ReadMap(val) ==
    IF val.t = "map" /\ \A i \in DOMAIN val.v : val.v[i].val.t = "string"
    THEN [v |-> [k \in {val.v[i].key : i \in DOMAIN val.v} |->
                    LET last == CHOOSE i \in DOMAIN val.v :
                                    /\ val.v[i].key = k
                                    /\ \A j \in DOMAIN val.v : val.v[j].key = k => j <= i
                    IN val.v[last].val.v],
          err |-> NoErr]
    ELSE [v |-> <<>>, err |-> DeserializationError]

\* UnmarshalField: the field named is allocated and read into
UnmarshalField(e, val, field) ==
    CASE field = "using" ->
            [found |-> TRUE, err |-> ReadString(val).err,
             e |-> [e EXCEPT !.Using = <<ReadString(val).v>>]]
      [] field = "params" ->
            [found |-> TRUE, err |-> ReadMap(val).err,
             e |-> [e EXCEPT !.Params = <<ReadMap(val).v>>]]
      [] field = "versionSuffix" ->
            [found |-> TRUE, err |-> ReadString(val).err,
             e |-> [e EXCEPT !.VersionSuffix = <<ReadString(val).v>>]]
      [] OTHER -> [found |-> FALSE, err |-> NoErr, e |-> e]

\* fault variant of ReadRecord: a field that is not found is an error
RECURSIVE ReadRecordRejectingUnknown(_, _, _)
ReadRecordRejectingUnknown(e, entries, i) ==
    IF i > Len(entries) THEN [e |-> e, err |-> NoErr]
    ELSE LET r == UnmarshalField(e, entries[i].val, entries[i].key)
         IN IF r.err # NoErr THEN [e |-> r.e, err |-> r.err]
            ELSE IF ~r.found THEN [e |-> r.e, err |-> DeserializationError]
            ELSE ReadRecordRejectingUnknown(r.e, entries, i + 1)

\* Reader.ReadRecord with the callback of UnmarshalRestLi, from entry i on: an
\* unknown field is skipped, an error ends the read
RECURSIVE ReadRecord(_, _, _)
ReadRecord(e, entries, i) ==
    IF i > Len(entries) THEN [e |-> e, err |-> NoErr]
    ELSE LET r == UnmarshalField(e, entries[i].val, entries[i].key)
         IN IF r.err # NoErr THEN [e |-> r.e, err |-> r.err]
            ELSE ReadRecord(r.e, entries, i + 1)

\* UnmarshalRestLi into e: no field is required
UnmarshalRestLi(e, val) ==
    IF val.t = "map" THEN ReadRecord(e, val.v, 1)
    ELSE [e |-> e, err |-> DeserializationError]

-----------------------------------------------------------------------------
(* The partial update of ExtensionSchemaAnnotation.                        *)

\* Delete_Fields.MarshalRestLi: the array of the names selected, params first
DeleteFieldsMarshalRestLi(d) ==
    WArray((IF d.Params THEN <<WString("params")>> ELSE <<>>)
           \o (IF d.Using THEN <<WString("using")>> ELSE <<>>)
           \o (IF d.VersionSuffix THEN <<WString("versionSuffix")>> ELSE <<>>))

\* Reader.ReadArray with the callback of Delete_Fields.UnmarshalRestLi, from item
\* i on: a name read selects its field, any other name selects nothing
RECURSIVE ReadDeleteArray(_, _, _)
ReadDeleteArray(d, items, i) ==
    IF i > Len(items) THEN [d |-> d, err |-> NoErr]
    ELSE LET r == ReadString(items[i])
         IN IF r.err # NoErr THEN [d |-> d, err |-> r.err]
            ELSE ReadDeleteArray(
                    CASE r.v = "using" -> [d EXCEPT !.Using = TRUE]
                      [] r.v = "params" -> [d EXCEPT !.Params = TRUE]
                      [] r.v = "versionSuffix" -> [d EXCEPT !.VersionSuffix = TRUE]
                      [] OTHER -> d,
                    items, i + 1)

\* Delete_Fields.UnmarshalRestLi into d
DeleteFieldsUnmarshalRestLi(d, val) ==
    IF val.t = "array" THEN ReadDeleteArray(d, val.v, 1)
    ELSE [d |-> d, err |-> DeserializationError]

\* Set_Fields.MarshalFields: the entries written through keyWriter, params first
SetFieldsMarshalFields(e) ==
    {(IF Len(e.Params) = 1 THEN <<Entry("params", w)>> ELSE <<>>)
        \o (IF Len(e.Using) = 1 THEN <<Entry("using", WString(e.Using[1]))>> ELSE <<>>)
        \o (IF Len(e.VersionSuffix) = 1
            THEN <<Entry("versionSuffix", WString(e.VersionSuffix[1]))>> ELSE <<>>)
     : w \in IF Len(e.Params) = 1 THEN WriteMap(e.Params[1]) ELSE {WMap(<<>>)}}

\* Set_Fields.MarshalRestLi
SetFieldsMarshalRestLi(e) == {WMap(f) : f \in SetFieldsMarshalFields(e)}

\* Set_Fields.UnmarshalField
SetFieldsUnmarshalField(e, val, field) ==
    CASE field = "using" ->
            [found |-> TRUE, err |-> ReadString(val).err,
             e |-> [e EXCEPT !.Using = <<ReadString(val).v>>]]
      [] field = "params" ->
            [found |-> TRUE, err |-> ReadMap(val).err,
             e |-> [e EXCEPT !.Params = <<ReadMap(val).v>>]]
      [] field = "versionSuffix" ->
            [found |-> TRUE, err |-> ReadString(val).err,
             e |-> [e EXCEPT !.VersionSuffix = <<ReadString(val).v>>]]
      [] OTHER -> [found |-> FALSE, err |-> NoErr, e |-> e]

\* Reader.ReadRecord with the callback of Set_Fields.UnmarshalRestLi, from entry i on
RECURSIVE SetFieldsReadRecord(_, _, _)
SetFieldsReadRecord(e, entries, i) ==
    IF i > Len(entries) THEN [e |-> e, err |-> NoErr]
    ELSE LET r == SetFieldsUnmarshalField(e, entries[i].val, entries[i].key)
         IN IF r.err # NoErr THEN [e |-> r.e, err |-> r.err]
            ELSE SetFieldsReadRecord(r.e, entries, i + 1)

\* Set_Fields.UnmarshalRestLi into e
SetFieldsUnmarshalRestLi(e, val) ==
    IF val.t = "map" THEN SetFieldsReadRecord(e, val.v, 1)
    ELSE [e |-> e, err |-> DeserializationError]

\* patch.PartialUpdateFieldChecker{RecordType: ...}
NewChecker == [RecordType |-> RecordType, HasDeletes |-> FALSE, HasSets |-> FALSE]

\* PartialUpdateFieldChecker.CheckField for a field that has no partial update
\* of its own: a field both deleted and set is an error naming the record type
\* and the field; otherwise the checker records that a delete or a set was seen
CheckField(checker, fieldName, isDeletePresent, isSetPresent) ==
    IF isDeletePresent /\ isSetPresent
    THEN [checker |-> checker,
          err |-> [kind |-> "patchConflict", recordType |-> checker.RecordType,
                   field |-> fieldName]]
    ELSE [checker |-> [checker EXCEPT !.HasDeletes = @ \/ isDeletePresent,
                                      !.HasSets = @ \/ isSetPresent],
          err |-> NoErr]

\* the three CheckField calls, in the order using, params, versionSuffix, the
\* first error returned
CheckFields(e) ==
    LET c1 == CheckField(NewChecker, "using",
                         e.Delete_Fields.Using, Len(e.Set_Fields.Using) = 1)
        c2 == CheckField(c1.checker, "params",
                         e.Delete_Fields.Params, Len(e.Set_Fields.Params) = 1)
        c3 == CheckField(c2.checker, "versionSuffix",
                         e.Delete_Fields.VersionSuffix, Len(e.Set_Fields.VersionSuffix) = 1)
    IN IF c1.err # NoErr THEN c1
       ELSE IF c2.err # NoErr THEN c2
       ELSE c3

\* fault variant of PatchSections: both sections are written, empty or not
PatchSectionsAlways(e, hasDeletes, hasSets) ==
    {<<Entry("$delete", DeleteFieldsMarshalRestLi(e.Delete_Fields)), Entry("$set", w)>>
     : w \in SetFieldsMarshalRestLi(e.Set_Fields)}

\* the $delete and $set sections written through keyWriter
PatchSections(e, hasDeletes, hasSets) ==
    {(IF hasDeletes
      THEN <<Entry("$delete", DeleteFieldsMarshalRestLi(e.Delete_Fields))>> ELSE <<>>)
        \o (IF hasSets THEN <<Entry("$set", w)>> ELSE <<>>)
     : w \in IF hasSets THEN SetFieldsMarshalRestLi(e.Set_Fields) ELSE {WMap(<<>>)}}

\* fault variant of MarshalRestLiPatch: the sections are written without the
\* field checks
MarshalRestLiPatchUnchecked(e) ==
    {[err |-> NoErr, out |-> WMap(s)] :
        s \in PatchSections(e,
                \E f \in {"Using", "Params", "VersionSuffix"} : e.Delete_Fields[f],
                \E f \in {"Using", "Params", "VersionSuffix"} : Len(e.Set_Fields[f]) = 1)}

\* MarshalRestLiPatch: the error returned and what the writer holds; a failed
\* check returns before any section is written
MarshalRestLiPatch(e) ==
    LET c == CheckFields(e)
    IN IF c.err # NoErr THEN {[err |-> c.err, out |-> WMap(<<>>)]}
       ELSE {[err |-> NoErr, out |-> WMap(s)] :
                s \in PatchSections(e, c.checker.HasDeletes, c.checker.HasSets)}

\* Reader.ReadMap with the callback of UnmarshalRestLiPatch, from entry i on
RECURSIVE ReadPatchMap(_, _, _)
ReadPatchMap(e, entries, i) ==
    IF i > Len(entries) THEN [e |-> e, err |-> NoErr]
    ELSE LET key == entries[i].key
             val == entries[i].val
             r == CASE key = "$delete" ->
                        LET d == DeleteFieldsUnmarshalRestLi(e.Delete_Fields, val)
                        IN [e |-> [e EXCEPT !.Delete_Fields = d.d], err |-> d.err]
                    [] key = "$set" ->
                        LET u == SetFieldsUnmarshalRestLi(e.Set_Fields, val)
                        IN [e |-> [e EXCEPT !.Set_Fields = u.e], err |-> u.err]
                    [] OTHER -> [e |-> e, err |-> NoErr]
         IN IF r.err # NoErr THEN r ELSE ReadPatchMap(r.e, entries, i + 1)

\* UnmarshalRestLiPatch into e: the sections are read, then the fields checked
UnmarshalRestLiPatch(e, val) ==
    LET r == IF val.t = "map" THEN ReadPatchMap(e, val.v, 1)
             ELSE [e |-> e, err |-> DeserializationError]
    IN IF r.err # NoErr THEN r
       ELSE [e |-> r.e, err |-> CheckFields(r.e).err]

-----------------------------------------------------------------------------
(* Codec runs: a record is marshalled and the result unmarshalled into a   *)
(* fresh instance; a partial update is marshalled and, when that succeeds, *)
(* unmarshalled again; a patch received from a peer is unmarshalled.       *)

\* restlicodec.NewRequiredFields() of ExtensionSchemaAnnotation and of ErrorDetails
ExtensionSchemaAnnotationRequiredFields == {}
ErrorDetailsRequiredFields == {}

\* the sets of required fields a generated record of these fields can declare
RequiredFieldSets == SUBSET {"using", "params", "versionSuffix"}

\* Reader.Skip: the value is passed over, whatever it is
Skip(val) == NoErr

\* Reader.ReadRecord(requiredFields, callback of UnmarshalRestLi): after all
\* keys are consumed, the required fields that no key named are an error
ReadRecordRequiring(requiredFields, e, val) ==
    IF val.t # "map" THEN [e |-> e, err |-> DeserializationError]
    ELSE LET r == ReadRecord(e, val.v, 1)
             missing == requiredFields \ {val.v[i].key : i \in DOMAIN val.v}
         IN IF r.err # NoErr THEN r
            ELSE IF missing = {} THEN r
            ELSE [e |-> r.e, err |-> [kind |-> "missingRequiredFields", fields |-> missing]]

\* new(ErrorDetails): the struct has no field
NewErrorDetails == [type |-> "ErrorDetails"]

\* ErrorDetails.UnmarshalField: no field is found
ErrorDetailsUnmarshalField(e, val, field) == [found |-> FALSE, err |-> NoErr, e |-> e]

\* Reader.ReadRecord with the callback of ErrorDetails.UnmarshalRestLi, from
\* entry i on
RECURSIVE ErrorDetailsReadRecord(_, _, _)
ErrorDetailsReadRecord(e, entries, i) ==
    IF i > Len(entries) THEN [e |-> e, err |-> NoErr]
    ELSE LET r == ErrorDetailsUnmarshalField(e, entries[i].val, entries[i].key)
             fieldErr == IF r.err # NoErr THEN r.err
                         ELSE IF ~r.found THEN Skip(entries[i].val)
                         ELSE NoErr
         IN IF fieldErr # NoErr THEN [e |-> r.e, err |-> fieldErr]
            ELSE ErrorDetailsReadRecord(r.e, entries, i + 1)

\* ErrorDetails.UnmarshalRestLi into e
ErrorDetailsUnmarshalRestLi(e, val) ==
    IF val.t # "map" THEN [e |-> e, err |-> DeserializationError]
    ELSE LET r == ErrorDetailsReadRecord(e, val.v, 1)
             missing == ErrorDetailsRequiredFields \ {val.v[i].key : i \in DOMAIN val.v}
         IN IF r.err # NoErr \/ missing = {} THEN r
            ELSE [e |-> r.e, err |-> [kind |-> "missingRequiredFields", fields |-> missing]]

\* the records a peer can send: what some version of the record marshals to,
\* with or without keys this version does not know, before and after its fields
WireRecords(rec) ==
    {WMap(front \o f \o back) :
        <<f, front, back>> \in
            MarshalFields(rec)
            \X {<<>>, <<Entry("$type", WString("s"))>>}
            \X {<<>>, <<Entry("extra", WMap(<<Entry("k1", WString("v"))>>))>>}}

\* new(ErrorDetails_PartialUpdate): the struct has no field
NewErrorDetailsPatch == [type |-> "ErrorDetails_PartialUpdate"]

\* ErrorDetails_PartialUpdate.MarshalRestLiPatch: a map with no key
ErrorDetailsMarshalRestLiPatch(e) == [err |-> NoErr, out |-> WMap(<<>>)]

\* Reader.ReadMap with the callback of ErrorDetails_PartialUpdate.
\* UnmarshalRestLiPatch, from entry i on: every key is skipped
RECURSIVE ErrorDetailsReadPatchMap(_, _, _)
ErrorDetailsReadPatchMap(e, entries, i) ==
    IF i > Len(entries) THEN [e |-> e, err |-> NoErr]
    ELSE IF Skip(entries[i].val) # NoErr THEN [e |-> e, err |-> Skip(entries[i].val)]
    ELSE ErrorDetailsReadPatchMap(e, entries, i + 1)

\* ErrorDetails_PartialUpdate.UnmarshalRestLiPatch into e
ErrorDetailsUnmarshalRestLiPatch(e, val) ==
    IF val.t = "map" THEN ErrorDetailsReadPatchMap(e, val.v, 1)
    ELSE [e |-> e, err |-> DeserializationError]

\* the patches a peer can send: the sections of any partial update, written
\* without the field checks, in either order, with or without a key this
\* version does not know
WirePatches(p) ==
    {WMap(extra \o (IF swap /\ Len(s) = 2 THEN <<s[2], s[1]>> ELSE s)) :
        <<s, swap, extra>> \in
            PatchSections(p,
                \E f \in {"Using", "Params", "VersionSuffix"} : p.Delete_Fields[f],
                \E f \in {"Using", "Params", "VersionSuffix"} : Len(p.Set_Fields[f]) = 1)
            \X BOOLEAN
            \X {<<>>, <<Entry("$reorder", WString("s"))>>}}

InitCodec ==
    /\ InitRegistry
    /\ marshalErr = NoErr
    /\ unmarshalErr = NoErr
    /\ codecOut = <<>>
    /\ \/ codecOp = "record" /\ codecIn \in Records /\ codecWire = <<>>
       \/ codecOp = "patch" /\ codecIn \in Patches /\ codecWire = <<>>
       \/ /\ codecOp = "wirePatch"
          /\ codecIn = <<>>
          /\ \E p \in Patches : \E w \in WirePatches(p) : codecWire = w
       \/ codecOp = "errorDetailsPatch" /\ codecIn = NewErrorDetailsPatch /\ codecWire = <<>>
       \/ /\ codecOp = "wireRecord"
          /\ \E rec \in Records : \E required \in RequiredFieldSets :
                /\ codecIn = [RequiredFields |-> required, Record |-> rec]
                /\ \E w \in WireRecords(rec) : codecWire = w

\* e.MarshalRestLi(writer) of the record
MarshalRecord ==
    /\ codecOp = "record"
    /\ \E w \in MarshalRestLi(codecIn) : codecWire' = w
    /\ marshalErr' = NoErr
    /\ codecOp' = "recordMarshalled"
    /\ UNCHANGED <<registryVars, codecIn, codecOut, unmarshalErr>>

\* e.NewInstance().UnmarshalRestLi(reader) of what was written
UnmarshalRecord ==
    /\ codecOp = "recordMarshalled"
    /\ marshalErr = NoErr
    /\ LET r == UnmarshalRestLi(NewInstance, codecWire)
       IN /\ codecOut' = r.e
          /\ unmarshalErr' = r.err
    /\ codecOp' = "recordUnmarshalled"
    /\ UNCHANGED <<registryVars, codecIn, codecWire, marshalErr>>

\* e.MarshalRestLiPatch(writer) of the partial update
MarshalPatch ==
    /\ codecOp = "patch"
    /\ \E r \in MarshalRestLiPatch(codecIn) :
          /\ codecWire' = r.out
          /\ marshalErr' = r.err
    /\ codecOp' = "patchMarshalled"
    /\ UNCHANGED <<registryVars, codecIn, codecOut, unmarshalErr>>

\* e.NewInstance().UnmarshalRestLiPatch(reader) of a patch received, or of what
\* a successful MarshalRestLiPatch wrote
UnmarshalPatch ==
    /\ \/ codecOp = "wirePatch"
       \/ codecOp = "patchMarshalled" /\ marshalErr = NoErr
    /\ LET r == UnmarshalRestLiPatch(NewPatchInstance, codecWire)
       IN /\ codecOut' = r.e
          /\ unmarshalErr' = r.err
    /\ codecOp' = "patchUnmarshalled"
    /\ UNCHANGED <<registryVars, codecIn, codecWire, marshalErr>>

\* e.NewInstance().UnmarshalRestLi(reader) of a record received, by a generated
\* record that requires the fields codecIn.RequiredFields
UnmarshalWireRecord ==
    /\ codecOp = "wireRecord"
    /\ LET r == ReadRecordRequiring(codecIn.RequiredFields, NewInstance, codecWire)
       IN /\ codecOut' = r.e
          /\ unmarshalErr' = r.err
    /\ codecOp' = "wireRecordUnmarshalled"
    /\ UNCHANGED <<registryVars, codecIn, codecWire, marshalErr>>

\* new(ErrorDetails).UnmarshalRestLi(reader) of a record received
UnmarshalErrorDetails ==
    /\ codecOp = "wireRecord"
    /\ LET r == ErrorDetailsUnmarshalRestLi(NewErrorDetails, codecWire)
       IN /\ codecOut' = r.e
          /\ unmarshalErr' = r.err
    /\ codecOp' = "errorDetailsUnmarshalled"
    /\ UNCHANGED <<registryVars, codecIn, codecWire, marshalErr>>

\* e.MarshalRestLiPatch(writer) of a partial update of ErrorDetails
MarshalErrorDetailsPatch ==
    /\ codecOp = "errorDetailsPatch"
    /\ LET r == ErrorDetailsMarshalRestLiPatch(codecIn)
       IN /\ codecWire' = r.out
          /\ marshalErr' = r.err
    /\ codecOp' = "errorDetailsPatchMarshalled"
    /\ UNCHANGED <<registryVars, codecIn, codecOut, unmarshalErr>>

\* new(ErrorDetails_PartialUpdate).UnmarshalRestLiPatch(reader) of a patch
\* received, or of what MarshalRestLiPatch wrote
UnmarshalErrorDetailsPatch ==
    /\ \/ codecOp = "wirePatch"
       \/ codecOp = "errorDetailsPatchMarshalled" /\ marshalErr = NoErr
    /\ LET r == ErrorDetailsUnmarshalRestLiPatch(NewErrorDetailsPatch, codecWire)
       IN /\ codecOut' = r.e
          /\ unmarshalErr' = r.err
    /\ codecOp' = "errorDetailsPatchUnmarshalled"
    /\ UNCHANGED <<registryVars, codecIn, codecWire, marshalErr>>

NextCodec ==
    \/ MarshalRecord
    \/ UnmarshalRecord
    \/ MarshalPatch
    \/ UnmarshalPatch
    \/ UnmarshalWireRecord
    \/ UnmarshalErrorDetails
    \/ MarshalErrorDetailsPatch
    \/ UnmarshalErrorDetailsPatch

SpecCodec == InitCodec /\ [][NextCodec]_vars

-----------------------------------------------------------------------------
(* C9 *)

FieldNames == {"using", "params", "versionSuffix"}

\* the fields a partial update both deletes and sets
Conflicts(p) ==
    {f \in FieldNames :
        \/ f = "using" /\ p.Delete_Fields.Using /\ Len(p.Set_Fields.Using) = 1
        \/ f = "params" /\ p.Delete_Fields.Params /\ Len(p.Set_Fields.Params) = 1
        \/ f = "versionSuffix" /\ p.Delete_Fields.VersionSuffix
                               /\ Len(p.Set_Fields.VersionSuffix) = 1}

\* the keys of the top-level entries of a written map
WireKeys(w) == {w.v[i].key : i \in DOMAIN w.v}

\* the names a wire patch lists in $delete, and the keys of its $set
WireDeleted(w) ==
    {f \in FieldNames : \E i \in DOMAIN w.v :
        /\ w.v[i].key = "$delete"
        /\ \E j \in DOMAIN w.v[i].val.v : w.v[i].val.v[j].v = f}
WireSet(w) ==
    {f \in FieldNames : \E i \in DOMAIN w.v :
        /\ w.v[i].key = "$set"
        /\ \E j \in DOMAIN w.v[i].val.v : w.v[i].val.v[j].key = f}

\* the error names the record type and one of the fields
NamesConflict(e, fields) ==
    /\ e.kind = "patchConflict"
    /\ e.recordType = RecordType
    /\ e.field \in fields

\* C9: MarshalRestLiPatch of a partial update that deletes and sets some field
\* returns an error naming the record type and such a field, and the writer
\* holds no $delete and no $set section; UnmarshalRestLiPatch of a wire patch
\* that lists some field in $delete and in $set returns such an error too.
C9_PatchConflictFails ==
    /\ (codecOp = "patchMarshalled" /\ Conflicts(codecIn) # {})
        => /\ NamesConflict(marshalErr, Conflicts(codecIn))
           /\ WireKeys(codecWire) \cap {"$delete", "$set"} = {}
    /\ (codecOp = "patchUnmarshalled" /\ WireDeleted(codecWire) \cap WireSet(codecWire) # {})
        => NamesConflict(unmarshalErr, WireDeleted(codecWire) \cap WireSet(codecWire))

\* a received patch that lists two fields in both sections was refused, and
\* the sections came after a key that is skipped
C9_Witness ==
    /\ codecOp = "patchUnmarshalled"
    /\ Cardinality(WireDeleted(codecWire) \cap WireSet(codecWire)) = 2
    /\ "$reorder" \in WireKeys(codecWire)
    /\ unmarshalErr.kind = "patchConflict"

-----------------------------------------------------------------------------
(* C10 *)

\* the fields of a record that are present
Present(e) ==
    {f \in FieldNames :
        \/ f = "using" /\ Len(e.Using) = 1
        \/ f = "params" /\ Len(e.Params) = 1
        \/ f = "versionSuffix" /\ Len(e.VersionSuffix) = 1}

\* C10: marshalling a record writes exactly its present fields, and
\* unmarshalling what was written into a fresh instance succeeds with a record
\* that Equals the original and has the same fields absent.
C10_RecordRoundTrip ==
    /\ codecOp \in {"recordMarshalled", "recordUnmarshalled"}
        => /\ marshalErr = NoErr
           /\ WireKeys(codecWire) = Present(codecIn)
    /\ codecOp = "recordUnmarshalled"
        => /\ unmarshalErr = NoErr
           /\ Equals(codecOut, codecIn)
           /\ Equals(codecIn, codecOut)
           /\ Present(codecOut) = Present(codecIn)

\* a record with an absent field, a field present with the zero value and a
\* map of two entries went through the round trip
C10_Witness ==
    /\ codecOp = "recordUnmarshalled"
    /\ Len(codecIn.Using) = 0
    /\ codecIn.VersionSuffix = <<"">>
    /\ Len(codecIn.Params) = 1
    /\ Cardinality(DOMAIN codecIn.Params[1]) = 2
    /\ codecWire.v[1].val.v[1].key = "k2"

-----------------------------------------------------------------------------
(* C11 *)

\* a received record without the keys that are not fields of the record
KnownEntries(w) ==
    WMap(SelectSeq(w.v, LAMBDA en : en.key \in FieldNames))

\* C11: unmarshalling a received record whose keys name every required field
\* succeeds, and yields what the same input without its unrecognised keys
\* yields, the record that was sent; when a required field is named by no key
\* it fails with an error naming the missing fields.  ErrorDetails, which has
\* no field, skips every key.
C11_UnknownKeysSkipped ==
    /\ codecOp = "wireRecordUnmarshalled"
        => LET missing == codecIn.RequiredFields \ WireKeys(codecWire)
           IN /\ missing = {}
                  => /\ unmarshalErr = NoErr
                     /\ codecOut = ReadRecordRequiring(codecIn.RequiredFields, NewInstance,
                                                        KnownEntries(codecWire)).e
                     /\ Equals(codecOut, codecIn.Record)
                     /\ Present(codecOut) = Present(codecIn.Record)
              /\ missing # {}
                  => /\ unmarshalErr.kind = "missingRequiredFields"
                     /\ unmarshalErr.fields = missing
    /\ codecOp = "errorDetailsUnmarshalled"
        => /\ unmarshalErr = NoErr
           /\ codecOut = NewErrorDetails

\* a received record with two unrecognised keys and its one required field
\* was unmarshalled
C11_Witness ==
    /\ codecOp = "wireRecordUnmarshalled"
    /\ codecIn.RequiredFields = {"params"}
    /\ {"$type", "extra"} \subseteq WireKeys(codecWire)
    /\ Len(codecOut.Params) = 1
    /\ Len(codecOut.Using) = 0
    /\ unmarshalErr = NoErr

-----------------------------------------------------------------------------
(* C12 *)

\* a partial update was handed to MarshalRestLiPatch in this run
PatchMarshalRun ==
    /\ codecOp \in {"patchMarshalled", "patchUnmarshalled"}
    /\ DOMAIN codecIn = {"Delete_Fields", "Set_Fields"}

SomeDeleted(p) ==
    p.Delete_Fields.Using \/ p.Delete_Fields.Params \/ p.Delete_Fields.VersionSuffix
SomeSet(p) ==
    Len(p.Set_Fields.Using) = 1 \/ Len(p.Set_Fields.Params) = 1
        \/ Len(p.Set_Fields.VersionSuffix) = 1

\* C12: what MarshalRestLiPatch writes has a $delete section only when a field
\* is selected for deletion and a $set section only when a field is set, and
\* has them then when it returns no error; the patch with nothing deleted and
\* nothing set marshals without error to a map with no key, and unmarshalling
\* that into a fresh patch succeeds with nothing deleted and nothing set.  The
\* partial update of ErrorDetails, which has no field, does the same.
C12_OnlyNonEmptySections ==
    /\ PatchMarshalRun
        => /\ "$delete" \in WireKeys(codecWire) => SomeDeleted(codecIn)
           /\ "$set" \in WireKeys(codecWire) => SomeSet(codecIn)
           /\ marshalErr = NoErr
                => /\ SomeDeleted(codecIn) => "$delete" \in WireKeys(codecWire)
                   /\ SomeSet(codecIn) => "$set" \in WireKeys(codecWire)
           /\ (~SomeDeleted(codecIn) /\ ~SomeSet(codecIn))
                => /\ marshalErr = NoErr
                   /\ codecWire.t = "map" /\ Len(codecWire.v) = 0
                   /\ codecOp = "patchUnmarshalled"
                        => /\ unmarshalErr = NoErr
                           /\ codecOut = NewPatchInstance
    /\ codecOp \in {"errorDetailsPatchMarshalled", "errorDetailsPatchUnmarshalled"}
         /\ DOMAIN codecIn = {"type"}
        => /\ marshalErr = NoErr
           /\ codecWire.t = "map" /\ Len(codecWire.v) = 0
           /\ codecOp = "errorDetailsPatchUnmarshalled"
                => unmarshalErr = NoErr /\ codecOut = NewErrorDetailsPatch

\* the patch with nothing deleted and nothing set went through marshal and
\* unmarshal
C12_Witness ==
    /\ codecOp = "patchUnmarshalled"
    /\ DOMAIN codecIn = {"Delete_Fields", "Set_Fields"}
    /\ ~SomeDeleted(codecIn)
    /\ ~SomeSet(codecIn)
    /\ Len(codecWire.v) = 0
    /\ codecOut = NewPatchInstance

-----------------------------------------------------------------------------
(* C13 *)

AccessorsThroughGet ==
    {"Resolve", "PackageRoot", "IsCyclic", "IsCustomTyperef", "SetCustomTyperef"}

\* the last call was an accessor built on get, for an id that is not registered
CalledOnUnregistered ==
    call.op \in AccessorsThroughGet /\ call.id \notin Registered

\* a panic is the answer to such a call and to no other
PanicsOnUnregistered ==
    /\ CalledOnUnregistered
        => pc = "panicked" /\ err.kind = "panic" /\ err.message = FullName(call.id)
    /\ pc = "panicked" => CalledOnUnregistered

\* TypeNameOverride does not panic, and answers "" for an id that is not
\* registered and for a type that has no override
TypeNameOverrideEmpty ==
    call.op = "TypeNameOverride"
        => /\ pc # "panicked"
           /\ call.id \notin Registered => call.result = <<>>
           /\ (call.id \in Registered /\ call.id \notin RenamedTypes) => call.result = <<>>
           /\ call.id \in RenamedTypes => call.result = types[call.id].TypeNameOverride

\* the step that panics changes nothing in the registry
PanicChangesNothing ==
    pc' = "panicked"
        => /\ types' = types
           /\ packageRoots' = packageRoots
           /\ importNames' = importNames

\* C13: Resolve, PackageRoot, IsCyclic, IsCustomTyperef and SetCustomTyperef on
\* an identifier that is not registered panic and leave the registry as it was;
\* TypeNameOverride never panics and returns "" for an identifier that is not
\* registered and for a registered type that was not renamed.
C13_AccessorsPanicOnUnknown ==
    /\ [](PanicsOnUnregistered /\ TypeNameOverrideEmpty)
    /\ [][PanicChangesNothing]_vars

\* SetCustomTyperef panicked on an unregistered id after Finalize had renamed
\* types of a registry
C13_Witness ==
    /\ pc = "panicked"
    /\ call.op = "SetCustomTyperef"
    /\ call.id \notin Registered
    /\ RenamedTypes # {}

-----------------------------------------------------------------------------
(* C14 *)

\* an entry appears only by a call of Register for its identifier, with
\* IsCyclic = false, no override and the package root given
CreatedByRegister ==
    \A id \in DOMAIN types' \ DOMAIN types :
        /\ call'.op = "Register" /\ call'.id = id
        /\ types'[id].PackageRoot = call'.root
        /\ types'[id].Type.id = id
        /\ ~types'[id].IsCyclic
        /\ types'[id].TypeNameOverride = <<>>
        /\ ~types'[id].IsCustomTyperef

\* an entry stays, with its Type and PackageRoot; IsCyclic is only ever set,
\* and only by the cycle stage of Finalize; TypeNameOverride changes only in
\* the name stage of Finalize
EntriesKept ==
    \A id \in DOMAIN types :
        /\ id \in DOMAIN types'
        /\ types'[id].Type = types[id].Type
        /\ types'[id].PackageRoot = types[id].PackageRoot
        /\ types[id].IsCyclic => types'[id].IsCyclic
        /\ types'[id].IsCyclic # types[id].IsCyclic => pc = "cycles"
        /\ types'[id].TypeNameOverride # types[id].TypeNameOverride => pc = "names"

\* no step changes IsCustomTyperef
CustomTyperefKept ==
    \A id \in DOMAIN types : types'[id].IsCustomTyperef = types[id].IsCustomTyperef

\* IsCustomTyperef is only ever set, and only by SetCustomTyperef for that id
CustomTyperefSetBySetter ==
    \A id \in DOMAIN types :
        /\ types[id].IsCustomTyperef => types'[id].IsCustomTyperef
        /\ types'[id].IsCustomTyperef # types[id].IsCustomTyperef
            => call'.op = "SetCustomTyperef" /\ call'.id = id /\ pc \in {"idle", "done"}

\* C14 as stated: an entry is created once, by Register, with IsCyclic = false,
\* is never deleted, keeps its Type and PackageRoot, IsCyclic never goes back
\* to false, and no field changes outside the cycle stage (IsCyclic) and the
\* name stage (TypeNameOverride) of Finalize.
C14_OnlyFinalizeMutatesEntries ==
    [][CreatedByRegister /\ EntriesKept /\ CustomTyperefKept]_vars

\* C14, amended: as above, except that SetCustomTyperef sets IsCustomTyperef of
\* the entry it is called for.
C14_EntriesMutatedByFinalizeAndSetter ==
    [][CreatedByRegister /\ EntriesKept /\ CustomTyperefSetBySetter]_vars

\* after Finalize flagged and renamed a type that SetCustomTyperef had marked,
\* an accessor read it
C14_Witness ==
    /\ pc = "done"
    /\ call.op = "IsCyclic"
    /\ call.id \in Registered
    /\ types[call.id].IsCyclic
    /\ types[call.id].IsCustomTyperef
    /\ types[call.id].TypeNameOverride # <<>>
    /\ \E id \in Registered : ~types[id].IsCyclic

-----------------------------------------------------------------------------
(* C15 *)

\* the chains of references that leave the package of their first type and
\* end in that package again
PackageReentries ==
    {c \in Chains(Cardinality(Registered) + 1) :
        /\ Len(c) >= 3
        /\ PackagePath(c[Len(c)]) = PackagePath(c[1])
        /\ \E i \in 2..(Len(c) - 1) : PackagePath(c[i]) # PackagePath(c[1])}

-----------------------------------------------------------------------------
(* C16 *)

\* a search that finds a cycle inside one package root flags a type that was
\* not cyclic before
SearchFlagsNewType ==
    (pc = "cycles" /\ pc' = "cycles" /\ searches' > 0 /\ Len(cycle') > 0)
        => /\ CyclicTypes \subseteq {id \in DOMAIN types' : types'[id].IsCyclic}
           /\ \E id \in OnChain(cycle') : ~types[id].IsCyclic /\ types'[id].IsCyclic

\* findCycle is called for one start type at most as often as there are types
SearchesBounded == searches <= Cardinality(Registered)

\* C16: a Finalize that was called returns; every search that finds a cycle
\* inside one package root flags a type that was not yet cyclic; and the
\* searches made for one start type are at most as many as the registered types.
C16_FinalizeTerminates ==
    /\ (pc \in {"cycles", "names"}) ~> FinalizeReturned
    /\ []SearchesBounded
    /\ [][SearchFlagsNewType]_vars

\* the first start type led to two cycles, found and flagged one after the
\* other, and its third search found none
C16_Witness ==
    /\ pc = "cycles"
    /\ Cardinality(visited) = 1
    /\ curId = {}
    /\ searches = 3
    /\ Cardinality(CyclicTypes) = 4

-----------------------------------------------------------------------------
(* C17 *)

\* the registry as Register left it: the types, their package roots and inner
\* types, nothing flagged and nothing renamed
AsRegistered ==
    [id \in Registered |-> NewRegisteredType(types[id].Type, types[id].PackageRoot)]

\* what flagCyclicDependencies can leave behind, over every order in which the
\* types and their inner types can be visited: the loop of the stage, made of
\* the same iterations as FlagCyclicDependenciesStep
RECURSIVE FlagCyclicDependenciesResults(_, _, _)
FlagCyclicDependenciesResults(ty, seen, cur) ==
    IF cur = {} /\ seen = DOMAIN ty THEN {[types |-> ty, err |-> NoErr]}
    ELSE UNION {UNION {IF r.err # NoErr THEN {[types |-> r.types, err |-> r.err]}
                       ELSE FlagCyclicDependenciesResults(
                                r.types,
                                IF r.found THEN seen ELSE seen \cup {id},
                                IF r.found THEN {id} ELSE {})
                       : r \in CycleIteration(ty, id)}
                : id \in (IF cur # {} THEN cur ELSE DOMAIN ty \ seen)}

\* what remediateConflictingNames can leave behind, over every order of the
\* package roots and of the types of a group
RECURSIVE RemediateConflictingNamesResults(_, _)
RemediateConflictingNamesResults(ty, done) ==
    IF done = DOMAIN packageRoots THEN {[types |-> ty, err |-> NoErr]}
    ELSE UNION {UNION {IF r.err # NoErr THEN {[types |-> r.types, err |-> r.err]}
                       ELSE RemediateConflictingNamesResults(r.types, done \cup {root})
                       : r \in RemediateRoot(ty, packageRoots[root])}
                : root \in DOMAIN packageRoots \ done}

\* what is compared between two runs: success or the class of the error, and
\* on success the cyclic types and the overrides
Outcome(ty, e) ==
    IF e # NoErr THEN [ok |-> FALSE, class |-> e.kind]
    ELSE [ok |-> TRUE, class |-> "none",
          cyclic |-> {id \in DOMAIN ty : ty[id].IsCyclic},
          overrides |-> [id \in DOMAIN ty |-> ty[id].TypeNameOverride]]

\* the outcomes Finalize can have on a registry in which every reference resolves
FinalizeOutcomes(ty) ==
    UNION {IF f.err # NoErr THEN {Outcome(f.types, f.err)}
           ELSE {Outcome(n.types, n.err) : n \in RemediateConflictingNamesResults(f.types, {})}
           : f \in FlagCyclicDependenciesResults(ty, {}, {})}

\* C17: when Finalize has returned on a registry in which every reference
\* resolves, every order of visiting the same registry has the outcome of this
\* run: the same success or class of error, the same cyclic types and overrides.
C17_FinalizeOrderIndependent ==
    (FinalizeReturned /\ UnknownRefs = {})
        => FinalizeOutcomes(AsRegistered) = {Outcome(types, err)}

====
